---- MODULE Spec2Model ----
(***************************************************************************)
(* Model of analyze_video.py: the segment planner                          *)
(* (create_video_segments), the remote analysis client                     *)
(* (VideoAnalyzer.analyze_segment, _extract_text), the concurrent segment  *)
(* runner (VideoAnalyzer.analyze_chunked), the duration resolver           *)
(* (get_video_duration), the constructor of VideoAnalyzer, the whole-video *)
(* call (VideoAnalyzer.analyze_full_video) and main.                       *)
(*                                                                         *)
(* Texts are sequences of tokens: a token is a one-character string, or a  *)
(* literal of the source kept whole ("Error in segment: ").                *)
(***************************************************************************)
EXTENDS Integers, Sequences, FiniteSets, TLC

\* Bounds of the model.
MaxDuration == 5
MaxSegLen == 3
MaxWorkers == 3
\* Bounds of the runs checked for termination (FairSpec).
MaxLiveDuration == 3
MaxLiveWorkers == 2
\* Bounds of the runs of main (MainSpec).
MaxMainDuration == 4
MaxMainSegLen == 2
MaxMainWorkers == 2
\* Longest plan the planner is followed for when its loop does not end.
MaxPlanLen == 6
\* Bounds of the responses handed to _extract_text (ExtractSpec).
MaxCandidates == 2
MaxParts == 2

VARIABLES
    api_type,          \* self.api_type
    total_duration,    \* argument of create_video_segments
    segment_duration,  \* argument of create_video_segments
    max_workers,       \* argument of analyze_chunked
    failing,           \* list positions whose remote call raises
    hung,              \* list positions whose remote call never returns
    pc,                \* position of the calling thread
    start,             \* create_video_segments: local start
    segment_index,     \* create_video_segments: local segment_index
    segments,          \* the plan: list of VideoSegment
    queue,             \* executor work queue (list positions, FIFO)
    submitted,         \* list positions handed to executor.submit
    started,           \* list positions whose analyze_segment call began
    completed,         \* list positions whose future is done
    ret,               \* future.result() of each completed position
    yielded,           \* futures already yielded by as_completed
    results,           \* the results dict, in insertion order
    writes,            \* number of assignments results[k] = ..., per key k
    requests,          \* number of client.models.generate_content calls
    report,            \* blocks printed by the display loop
    exception,         \* exception that escaped the call, or "none"
    enable_chunking,   \* args.enable_chunking
    info,              \* what the metadata lookup of get_video_duration gave
    video_duration,    \* main: video_duration, <<>> for None, <<d>> for d
    lookups,           \* number of ydl.extract_info calls
    whole_requests,    \* number of whole-video generate_content calls
    resp,              \* the response object handed to _extract_text
    whole_result,      \* main: result, the text of the whole-video analysis
    exit_message,      \* message of sys.exit, or "none"
    whole_error,       \* str(e) of the error the whole-video call raised, or <<>>
    credentials,       \* what the environment and the arguments resolve
    chunked_calls      \* number of calls of analyze_chunked

vars == <<api_type, total_duration, segment_duration, max_workers, failing, hung,
          pc, start, segment_index, segments, queue, submitted, started,
          completed, ret, yielded, results, writes, requests, report,
          exception, enable_chunking, info, video_duration, lookups,
          whole_requests, resp, whole_result, exit_message, whole_error,
          credentials, chunked_calls>>

inputVars == <<api_type, total_duration, segment_duration, max_workers, failing,
               hung>>
planVars == <<start, segment_index, segments>>
poolVars == <<queue, submitted, started, completed, ret, requests>>
collectVars == <<yielded, results, writes>>
mainVars == <<enable_chunking, info, video_duration, lookups, whole_requests,
              resp, whole_result, exit_message, whole_error, credentials>>

----------------------------------------------------------------------------
\* Helpers

Min(a, b) == IF a <= b THEN a ELSE b

\* ceil(a / b) for a >= 0, b > 0
CeilDiv(a, b) == (a + b - 1) \div b

Range(s) == {s[k] : k \in 1..Len(s)}

\* VideoSegment(start_offset, end_offset, segment_index)
VideoSegment(s, e, i) == [start_offset |-> s, end_offset |-> e, segment_index |-> i]

\* VideoSegment.__str__: "Segment {i}: {mm:02d}:{ss:02d} - {mm:02d}:{ss:02d}"
SegmentStr(seg) ==
    [segment_index |-> seg.segment_index,
     start_min |-> seg.start_offset \div 60,
     start_sec |-> seg.start_offset % 60,
     end_min |-> seg.end_offset \div 60,
     end_sec |-> seg.end_offset % 60]

----------------------------------------------------------------------------
\* Text: str.strip, str.join, _extract_text

Whitespace == {" ", "\n"}

RECURSIVE LStrip(_)
LStrip(t) ==
    IF t = <<>> THEN <<>>
    ELSE IF Head(t) \in Whitespace THEN LStrip(Tail(t)) ELSE t

RECURSIVE RStrip(_)
RStrip(t) ==
    IF t = <<>> THEN <<>>
    ELSE IF t[Len(t)] \in Whitespace THEN RStrip(SubSeq(t, 1, Len(t) - 1)) ELSE t

\* str.strip()
Strip(t) == RStrip(LStrip(t))

\* "\n\n".join(texts)
RECURSIVE JoinBlank(_)
JoinBlank(texts) ==
    IF texts = <<>> THEN <<>>
    ELSE IF Len(texts) = 1 THEN texts[1]
    ELSE texts[1] \o <<"\n", "\n">> \o JoinBlank(Tail(texts))

\* the inner loop of _extract_text over the parts of one candidate
RECURSIVE PartTexts(_)
PartTexts(parts) ==
    IF parts = <<>> THEN <<>>
    ELSE (IF Head(parts) # <<>> THEN <<Strip(Head(parts))>> ELSE <<>>)
         \o PartTexts(Tail(parts))

\* the outer loop of _extract_text over response.candidates; a candidate is
\* the list of the text of its parts (<<>> for a part without text)
RECURSIVE CandidateTexts(_)
CandidateTexts(candidates) ==
    IF candidates = <<>> THEN <<>>
    ELSE PartTexts(Head(candidates)) \o CandidateTexts(Tail(candidates))

NoResponse == <<"No response generated.">>

\* VideoAnalyzer._extract_text
extract_text(response) ==
    LET result == Strip(JoinBlank(CandidateTexts(response)))
    IN  IF result # <<>> THEN result ELSE NoResponse

----------------------------------------------------------------------------
\* The remote generation service (environment)

\* the time window carried by the request: video_metadata of analyze_segment
SegmentRequest(seg) ==
    [start_offset |-> <<ToString(seg.start_offset), "s">>,
     end_offset |-> <<ToString(seg.end_offset), "s">>]

\* the response of the service to a request: one candidate with one text part
RemoteResponse(req) ==
    << << <<" ", "t">> \o req.start_offset \o <<"-">> \o req.end_offset \o <<" ">> >> >>

\* str(e) of the exception the service raises for a request
RemoteError(req) == <<"e">> \o req.start_offset

ChunkingError == <<"Error: Chunking only works with Vertex AI">>
SegmentErrorPrefix == "Error in segment: "

\* an outcome text that reports a failure
IsFailure(text) ==
    /\ text # <<>>
    /\ text[1] \in {SegmentErrorPrefix, ChunkingError[1]}

IsSuccess(text) == ~IsFailure(text)

----------------------------------------------------------------------------
\* create_video_segments

\* the lookup result before any lookup
NotLookedUp == [kind |-> "none", duration |-> 0]

\* the state of main's own variables when main is not what runs
MainIdle ==
    /\ enable_chunking = TRUE
    /\ info = NotLookedUp
    /\ video_duration = <<>>
    /\ lookups = 0
    /\ whole_requests = 0
    /\ resp = <<>>
    /\ whole_result = <<>>
    /\ exit_message = "none"
    /\ whole_error = <<>>
    /\ credentials = {"api_key", "project_id"}
    /\ chunked_calls = 0

Init ==
    /\ api_type \in {"google-ai", "vertex-ai"}
    /\ total_duration \in 0..MaxDuration
    /\ segment_duration \in 1..MaxSegLen
    /\ max_workers \in 1..MaxWorkers
    /\ failing \in SUBSET (1..total_duration)
    /\ hung = {}
    /\ pc = "plan"
    /\ start = 0
    /\ segment_index = 1
    /\ segments = <<>>
    /\ queue = <<>>
    /\ submitted = {}
    /\ started = {}
    /\ completed = {}
    /\ ret = <<>>
    /\ yielded = {}
    /\ results = <<>>
    /\ writes = <<>>
    /\ requests = 0
    /\ report = <<>>
    /\ exception = "none"
    /\ MainIdle

\* the end is not clamped to the total duration
SegmentEndUnclamped(s) == s + segment_duration

\* end = min(start + segment_duration, total_duration)
SegmentEnd(s) == Min(s + segment_duration, total_duration)

\* the index does not advance
NextIndexStuck(i) == i

\* segment_index += 1
NextIndex(i) == i + 1

\* the loop runs while start <= total_duration
PlanStepInclusive ==
    /\ pc = "plan"
    /\ start <= total_duration
    /\ Len(segments) < MaxPlanLen
    /\ segments' = Append(segments, VideoSegment(start, SegmentEnd(start), segment_index))
    /\ start' = SegmentEnd(start)
    /\ segment_index' = NextIndex(segment_index)
    /\ UNCHANGED <<inputVars, mainVars, chunked_calls,
                   pc, poolVars, collectVars, report, exception>>

\* an iteration that leaves start where it was
PlanStepNoAdvance ==
    /\ pc = "plan"
    /\ start < total_duration
    /\ Len(segments) < MaxPlanLen
    /\ segments' = Append(segments, VideoSegment(start, SegmentEnd(start), segment_index))
    /\ start' = start
    /\ segment_index' = NextIndex(segment_index)
    /\ UNCHANGED <<inputVars, mainVars, chunked_calls,
                   pc, poolVars, collectVars, report, exception>>

\* one iteration of the while loop
PlanStep ==
    /\ pc = "plan"
    /\ start < total_duration
    /\ Len(segments) < MaxPlanLen
    /\ segments' = Append(segments, VideoSegment(start, SegmentEnd(start), segment_index))
    /\ start' = SegmentEnd(start)
    /\ segment_index' = NextIndex(segment_index)
    /\ UNCHANGED <<inputVars, mainVars, chunked_calls,
                   pc, poolVars, collectVars, report, exception>>

\* the loop condition fails: return segments
PlanReturn ==
    /\ pc = "plan"
    /\ ~(start < total_duration)
    /\ pc' = "planned"
    /\ UNCHANGED <<inputVars, mainVars, chunked_calls,
                   planVars, poolVars, collectVars, report, exception>>

\* create_video_segments on its own, its loop never suspended forever
PlanNext == PlanStep \/ PlanReturn

PlanSpec == Init /\ [][PlanNext]_vars /\ WF_vars(PlanNext)

----------------------------------------------------------------------------
\* dict, in insertion order: a sequence of [key, value] with distinct keys

\* d.keys()
DictKeys(d) == [k \in 1..Len(d) |-> d[k].key]

HasKey(d, key) == \E k \in 1..Len(d) : d[k].key = key

\* d[key]
DictGet(d, key) == d[CHOOSE k \in 1..Len(d) : d[k].key = key].value

\* d[key] = value: a new key goes last, an old key keeps its place
DictSet(d, key, value) ==
    IF HasKey(d, key)
    THEN [k \in 1..Len(d) |-> IF d[k].key = key THEN [key |-> key, value |-> value] ELSE d[k]]
    ELSE Append(d, [key |-> key, value |-> value])

\* the mapping a dict stands for, which is what == compares
DictMap(d) == [key \in Range(DictKeys(d)) |-> DictGet(d, key)]

\* writes[key] += 1
CountWrite(w, key) ==
    [k \in (DOMAIN w) \cup {key} |->
        (IF k \in DOMAIN w THEN w[k] ELSE 0) + (IF k = key THEN 1 ELSE 0)]

\* sorted(keys), by insertion
RECURSIVE Insert(_, _)
Insert(x, s) ==
    IF s = <<>> THEN <<x>>
    ELSE IF x <= Head(s) THEN <<x>> \o s
    ELSE <<Head(s)>> \o Insert(x, Tail(s))

RECURSIVE InsertionSort(_)
InsertionSort(s) == IF s = <<>> THEN <<>> ELSE Insert(Head(s), InsertionSort(Tail(s)))

\* iteration order of the display loop when the keys are not sorted
InsertionOrder(s) == s

\* sorted(results.keys())
Sorted(s) == InsertionSort(s)

----------------------------------------------------------------------------
\* VideoAnalyzer.analyze_segment, called for the segment at list position i

\* the call begins without the api_type gate: the request is always sent
AnalyzeSegmentCallUngated(i) ==
    /\ requests' = requests + 1
    /\ started' = started \cup {i}
    /\ UNCHANGED <<completed, ret>>

\* entry of analyze_segment up to the remote call
AnalyzeSegmentCall(i) ==
    IF api_type # "vertex-ai"
    THEN /\ started' = started \cup {i}
         /\ completed' = completed \cup {i}
         /\ ret' = (i :> <<segments[i], ChunkingError>>) @@ ret
         /\ UNCHANGED requests
    ELSE /\ requests' = requests + 1
         /\ started' = started \cup {i}
         /\ UNCHANGED <<completed, ret>>

\* the text analyze_segment returns once the remote call is over
SegmentText(i) ==
    IF i \in failing
    THEN <<SegmentErrorPrefix>> \o RemoteError(SegmentRequest(segments[i]))
    ELSE extract_text(RemoteResponse(SegmentRequest(segments[i])))

\* a failed remote call is attempted a second time before the error is returned
AnalyzeSegmentReturnRetry(i) ==
    /\ i \in started \ completed
    /\ completed' = completed \cup {i}
    /\ ret' = (i :> <<segments[i], SegmentText(i)>>) @@ ret
    /\ requests' = requests + (IF i \in failing THEN 1 ELSE 0)
    /\ UNCHANGED started

\* the remote call returns or raises: analyze_segment returns
AnalyzeSegmentReturn(i) ==
    /\ i \in started \ completed
    /\ completed' = completed \cup {i}
    /\ ret' = (i :> <<segments[i], SegmentText(i)>>) @@ ret
    /\ UNCHANGED <<started, requests>>

----------------------------------------------------------------------------
\* VideoAnalyzer.analyze_chunked

\* calls in flight: started and not yet completed
InFlight == started \ completed

\* entry of analyze_chunked: the api_type gate, results = {}, and the pool
\* constructor, which raises ValueError when max_workers <= 0
ChunkedEnter ==
    /\ pc = "planned"
    /\ IF api_type # "vertex-ai"
       THEN IF segments = <<>>
            THEN /\ exception' = "IndexError"
                 /\ pc' = "raised"
                 /\ UNCHANGED <<results, writes>>
            ELSE /\ results' = <<[key |-> 1, value |-> <<segments[1], ChunkingError>>]>>
                 /\ writes' = CountWrite(writes, 1)
                 /\ pc' = "returned"
                 /\ UNCHANGED exception
       ELSE /\ results' = <<>>
            /\ IF max_workers <= 0
               THEN /\ exception' = "ValueError"
                    /\ pc' = "raised"
               ELSE /\ pc' = IF segments = <<>> THEN "collect" ELSE "submit"
                    /\ UNCHANGED exception
            /\ UNCHANGED writes
    /\ chunked_calls' = chunked_calls + 1
    /\ UNCHANGED <<inputVars, mainVars, planVars, poolVars, yielded, report>>

\* the segments are submitted last to first
SubmitDescending ==
    /\ pc = "submit"
    /\ LET i == Len(segments) - Cardinality(submitted)
       IN  /\ i >= 1
           /\ submitted' = submitted \cup {i}
           /\ queue' = Append(queue, i)
           /\ pc' = IF i = 1 THEN "collect" ELSE "submit"
    /\ UNCHANGED <<inputVars, mainVars, chunked_calls,
                   planVars, started, completed, ret, requests,
                   collectVars, report, exception>>

\* executor.submit(self.analyze_segment, ..., segment, ...) for the next segment
Submit ==
    /\ pc = "submit"
    /\ LET i == Cardinality(submitted) + 1
       IN  /\ i <= Len(segments)
           /\ submitted' = submitted \cup {i}
           /\ queue' = Append(queue, i)
           /\ pc' = IF i = Len(segments) THEN "collect" ELSE "submit"
    /\ UNCHANGED <<inputVars, mainVars, chunked_calls,
                   planVars, started, completed, ret, requests,
                   collectVars, report, exception>>

\* a pool without a bound on its threads
PoolHasFreeWorkerUnbounded == TRUE

\* ThreadPoolExecutor(max_workers=max_workers): a worker thread is free
PoolHasFreeWorker == Cardinality(InFlight) < max_workers

\* a free worker takes the oldest queued unit and calls analyze_segment
WorkerStart ==
    /\ queue # <<>>
    /\ PoolHasFreeWorker
    /\ queue' = Tail(queue)
    /\ AnalyzeSegmentCall(Head(queue))
    /\ UNCHANGED <<inputVars, mainVars, chunked_calls,
                   pc, planVars, submitted, collectVars, report, exception>>

\* a remote call that would never return is given up after a while
WorkerFinishTimeout ==
    /\ \E i \in InFlight : AnalyzeSegmentReturn(i)
    /\ UNCHANGED <<inputVars, mainVars, chunked_calls,
                   pc, planVars, queue, submitted, collectVars,
                   report, exception>>

\* the remote call of one unit in flight ends; its future is done
WorkerFinish ==
    /\ \E i \in InFlight \ hung : AnalyzeSegmentReturn(i)
    /\ UNCHANGED <<inputVars, mainVars, chunked_calls,
                   pc, planVars, queue, submitted, collectVars,
                   report, exception>>

\* the key a result is stored under when results are numbered as they arrive
ArrivalKey(segment) == Len(results) + 1

\* the key a result is stored under when results are keyed by the minute
ResultKeyMinute(segment) == segment.start_offset \div 60

\* the key of results[segment.segment_index] = (segment, result)
ResultKey(segment) == segment.segment_index

\* the loop drops the results that report an error
RecordSkipFailures ==
    /\ pc = "collect"
    /\ \E i \in completed \ yielded :
        LET segment == ret[i][1]
            result == ret[i][2]
        IN  /\ results' = IF IsFailure(result) THEN results
                          ELSE DictSet(results, segment.segment_index, <<segment, result>>)
            /\ writes' = IF IsFailure(result) THEN writes
                         ELSE CountWrite(writes, segment.segment_index)
            /\ yielded' = yielded \cup {i}
    /\ UNCHANGED <<inputVars, mainVars, chunked_calls,
                   pc, planVars, poolVars, report, exception>>

\* one iteration of: for future in as_completed(futures)
Record ==
    /\ pc = "collect"
    /\ \E i \in completed \ yielded :
        LET segment == ret[i][1]
            result == ret[i][2]
        IN  /\ results' = DictSet(results, ResultKey(segment), <<segment, result>>)
            /\ writes' = CountWrite(writes, ResultKey(segment))
            /\ yielded' = yielded \cup {i}
    /\ UNCHANGED <<inputVars, mainVars, chunked_calls,
                   pc, planVars, poolVars, report, exception>>

\* return without waiting for the futures
ChunkedReturnNoJoin ==
    /\ pc = "collect"
    /\ pc' = "returned"
    /\ UNCHANGED <<inputVars, mainVars, chunked_calls,
                   planVars, poolVars, collectVars, report, exception>>

\* as_completed is exhausted, the with block shuts the pool down: return results
ChunkedReturn ==
    /\ pc = "collect"
    /\ yielded = 1..Len(segments)
    /\ queue = <<>>
    /\ InFlight = {}
    /\ pc' = "returned"
    /\ UNCHANGED <<inputVars, mainVars, chunked_calls,
                   planVars, poolVars, collectVars, report, exception>>

----------------------------------------------------------------------------
\* main: the display loop over the chunked results

\* the block printed for results[i]
Block(i) == [header |-> SegmentStr(DictGet(results, i)[1]), text |-> DictGet(results, i)[2]]

\* the display loop with a marker printed for an empty mapping
RenderNoResultsMarker ==
    /\ pc = "returned"
    /\ LET order == Sorted(DictKeys(results))
       IN  report' = IF order = <<>> THEN <<"no results">>
                     ELSE [k \in 1..Len(order) |-> Block(order[k])]
    /\ pc' = "done"
    /\ UNCHANGED <<inputVars, mainVars, chunked_calls,
                   planVars, poolVars, collectVars, exception>>

\* for i in sorted(results.keys()): print the block of results[i]
Render ==
    /\ pc = "returned"
    /\ LET order == Sorted(DictKeys(results))
       IN  report' = [k \in 1..Len(order) |-> Block(order[k])]
    /\ pc' = "done"
    /\ UNCHANGED <<inputVars, mainVars, chunked_calls,
                   planVars, poolVars, collectVars, exception>>

Next ==
    \/ PlanStep
    \/ PlanReturn
    \/ ChunkedEnter
    \/ Submit
    \/ WorkerStart
    \/ WorkerFinish
    \/ Record
    \/ ChunkedReturn
    \/ Render

Spec == Init /\ [][Next]_vars

\* the runs checked for termination: one-second segments, small plans, and
\* only the first remote call may raise
FairInit ==
    /\ Init
    /\ total_duration <= MaxLiveDuration
    /\ segment_duration = 1
    /\ max_workers <= MaxLiveWorkers
    /\ failing \subseteq {1}

\* the calling thread, the pool's worker threads and the remote service all
\* keep running: no step that stays possible is postponed forever
FairSpec ==
    /\ FairInit
    /\ [][Next]_vars
    /\ WF_vars(PlanStep \/ PlanReturn \/ ChunkedEnter \/ Submit \/ Record
               \/ ChunkedReturn \/ Render)
    /\ WF_vars(WorkerStart)
    /\ WF_vars(WorkerFinish)

\* the runs in which the remote call of at most one segment never returns
HangInit ==
    /\ api_type = "vertex-ai"
    /\ total_duration \in 1..MaxLiveDuration
    /\ segment_duration = 1
    /\ max_workers \in 1..MaxLiveWorkers
    /\ failing = {}
    /\ hung \in {{}} \cup {{h} : h \in 1..total_duration}
    /\ pc = "plan"
    /\ start = 0
    /\ segment_index = 1
    /\ segments = <<>>
    /\ queue = <<>>
    /\ submitted = {}
    /\ started = {}
    /\ completed = {}
    /\ ret = <<>>
    /\ yielded = {}
    /\ results = <<>>
    /\ writes = <<>>
    /\ requests = 0
    /\ report = <<>>
    /\ exception = "none"
    /\ MainIdle

HangSpec ==
    /\ HangInit
    /\ [][Next]_vars
    /\ WF_vars(PlanStep \/ PlanReturn \/ ChunkedEnter \/ Submit \/ Record
               \/ ChunkedReturn \/ Render)
    /\ WF_vars(WorkerStart)
    /\ WF_vars(WorkerFinish)

----------------------------------------------------------------------------
\* analyze_segment called directly, on any client and for any segment

SegInit ==
    /\ api_type \in {"google-ai", "vertex-ai"}
    /\ total_duration = 0
    /\ segment_duration = 1
    /\ max_workers = 1
    /\ failing \in SUBSET {1}
    /\ hung = {}
    /\ pc = "segment_call"
    /\ start = 0
    /\ segment_index = 1
    /\ \E s \in 0..MaxDuration, e \in 0..MaxDuration, i \in 1..MaxDuration :
          segments = <<VideoSegment(s, e, i)>>
    /\ queue = <<>>
    /\ submitted = {}
    /\ started = {}
    /\ completed = {}
    /\ ret = <<>>
    /\ yielded = {}
    /\ results = <<>>
    /\ writes = <<>>
    /\ requests = 0
    /\ report = <<>>
    /\ exception = "none"
    /\ MainIdle

\* the caller enters analyze_segment
SegmentCall ==
    /\ pc = "segment_call"
    /\ AnalyzeSegmentCall(1)
    /\ pc' = IF api_type # "vertex-ai" THEN "segment_returned" ELSE "segment_wait"
    /\ UNCHANGED <<inputVars, mainVars, chunked_calls,
                   planVars, queue, submitted, collectVars, report, exception>>

\* the remote call is over and analyze_segment returns
SegmentReturn ==
    /\ pc = "segment_wait"
    /\ AnalyzeSegmentReturn(1)
    /\ pc' = "segment_returned"
    /\ UNCHANGED <<inputVars, mainVars, chunked_calls,
                   planVars, queue, submitted, collectVars, report, exception>>

SegNext == SegmentCall \/ SegmentReturn

SegSpec == SegInit /\ [][SegNext]_vars

----------------------------------------------------------------------------
\* _extract_text called directly, on any response

\* sequences over S of length at most n
SeqsUpTo(S, n) == UNION {[1..k -> S] : k \in 0..n}

\* the text of a part: none (or empty), only whitespace, padded, plain
PartTextValues == {<<>>, <<" ">>, <<" ", "a", " ">>, <<"b">>}

\* the responses: candidates, each the list of the texts of its parts
Responses == SeqsUpTo(SeqsUpTo(PartTextValues, MaxParts), MaxCandidates)

ExtractInit ==
    /\ api_type = "vertex-ai"
    /\ total_duration = 0
    /\ segment_duration = 1
    /\ max_workers = 1
    /\ failing = {}
    /\ hung = {}
    /\ pc = "extract"
    /\ start = 0
    /\ segment_index = 1
    /\ segments = <<>>
    /\ queue = <<>>
    /\ submitted = {}
    /\ started = {}
    /\ completed = {}
    /\ ret = <<>>
    /\ yielded = {}
    /\ results = <<>>
    /\ writes = <<>>
    /\ requests = 0
    /\ report = <<>>
    /\ exception = "none"
    /\ enable_chunking = TRUE
    /\ info = NotLookedUp
    /\ video_duration = <<>>
    /\ lookups = 0
    /\ whole_requests = 0
    /\ resp \in Responses
    /\ whole_result = <<>>
    /\ exit_message = "none"
    /\ whole_error = <<>>
    /\ credentials = {"api_key", "project_id"}
    /\ chunked_calls = 0

\* _extract_text(response) returns
ExtractText ==
    /\ pc = "extract"
    /\ whole_result' = extract_text(resp)
    /\ pc' = "extracted"
    /\ UNCHANGED <<inputVars, planVars, poolVars, collectVars, report, exception,
                   enable_chunking, info, video_duration, lookups, whole_requests,
                   resp, exit_message, whole_error, credentials, chunked_calls>>

ExtractNext == ExtractText

ExtractSpec == ExtractInit /\ [][ExtractNext]_vars

----------------------------------------------------------------------------
\* main: parse_args, VideoAnalyzer(...), get_video_duration, the chunking
\* decision, the chunked path and the whole-video path

\* choices of --api
ApiChoices == {"google-ai", "vertex-ai"}

\* default of --segment-duration
DefaultSegmentDuration == 180

InvalidChoice == "argument --api: invalid choice"
MissingApiKey == "Error: Set GOOGLE_API_KEY environment variable for Google AI"
MissingProject == "Error: Set --project or GOOGLE_CLOUD_PROJECT for Vertex AI"
InvalidApiType == "Error: Invalid API type"

\* yt_dlp could not be imported: YT_DLP_AVAILABLE is False
Unavailable == [kind |-> "unavailable", duration |-> 0]

\* what ydl.extract_info and info.get('duration') can give: an exception, no
\* duration field, or a duration; the long duration only with the default
\* segment length
LookupOutcomes ==
    {[kind |-> "raised", duration |-> 0], [kind |-> "no_duration", duration |-> 0]}
    \cup {[kind |-> "duration", duration |-> d] :
            d \in (0..MaxMainDuration)
                  \cup (IF segment_duration = DefaultSegmentDuration THEN {400} ELSE {})}

\* the response of the service to the whole-video request
WholeResponse == << << <<" ", "w", " ">> >> >>

\* str(e) of the exception the service raises for the whole-video request
WholeError == <<"e">>

WholeErrorPrefix == "Error: "

\* the state every entry starts from
Fresh ==
    /\ total_duration = 0
    /\ hung = {}
    /\ start = 0
    /\ segment_index = 1
    /\ segments = <<>>
    /\ queue = <<>>
    /\ submitted = {}
    /\ started = {}
    /\ completed = {}
    /\ ret = <<>>
    /\ yielded = {}
    /\ results = <<>>
    /\ writes = <<>>
    /\ requests = 0
    /\ report = <<>>
    /\ exception = "none"
    /\ video_duration = <<>>
    /\ lookups = 0
    /\ whole_requests = 0
    /\ resp = <<>>
    /\ whole_result = <<>>
    /\ exit_message = "none"
    /\ whole_error = <<>>
    /\ chunked_calls = 0

\* the program is started with any arguments in any environment; or
\* VideoAnalyzer is constructed, or get_video_duration called, on its own
MainInit ==
    /\ Fresh
    /\ info \in {NotLookedUp, Unavailable}
    /\ \/ /\ pc = "parse"
          /\ api_type \in ApiChoices \cup {"other"}
          /\ credentials \in SUBSET {"api_key", "project_id"}
          /\ enable_chunking \in BOOLEAN
          /\ segment_duration \in (0..MaxMainSegLen) \cup {DefaultSegmentDuration}
          /\ max_workers \in 0..MaxMainWorkers
          /\ failing \in SUBSET (1..MaxMainDuration)
       \/ /\ pc = "construct_direct"
          /\ api_type \in ApiChoices \cup {"other"}
          /\ credentials \in SUBSET {"api_key", "project_id"}
          /\ enable_chunking = FALSE
          /\ segment_duration = DefaultSegmentDuration
          /\ max_workers = 1
          /\ failing = {}
       \/ /\ pc = "duration_direct"
          /\ api_type = "google-ai"
          /\ credentials = {"api_key", "project_id"}
          /\ enable_chunking = FALSE
          /\ segment_duration = DefaultSegmentDuration
          /\ max_workers = 1
          /\ failing = {}

\* parse_args: argparse rejects an --api value outside its choices
MainParse ==
    /\ pc = "parse"
    /\ IF api_type \notin ApiChoices
       THEN /\ exit_message' = InvalidChoice
            /\ pc' = "exited"
       ELSE /\ pc' = "construct"
            /\ UNCHANGED exit_message
    /\ UNCHANGED <<inputVars, planVars, poolVars, collectVars, report, exception,
                   enable_chunking, info, video_duration, lookups, whole_requests,
                   resp, whole_result, whole_error, credentials, chunked_calls>>

\* the constructor goes on without the credential it needs
ConstructUnchecked ==
    /\ pc \in {"construct", "construct_direct"}
    /\ pc' = IF pc = "construct" THEN "resolve" ELSE "constructed"
    /\ UNCHANGED <<inputVars, planVars, poolVars, collectVars, report, exception,
                   enable_chunking, info, video_duration, lookups, whole_requests,
                   resp, whole_result, exit_message, whole_error, credentials,
                   chunked_calls>>

\* VideoAnalyzer.__init__
Construct ==
    /\ pc \in {"construct", "construct_direct"}
    /\ LET failure ==
              IF api_type = "google-ai"
              THEN (IF "api_key" \notin credentials THEN MissingApiKey ELSE "none")
              ELSE IF api_type = "vertex-ai"
              THEN (IF "project_id" \notin credentials THEN MissingProject ELSE "none")
              ELSE InvalidApiType
       IN  IF failure # "none"
           THEN /\ exit_message' = failure
                /\ pc' = "exited"
           ELSE /\ pc' = IF pc = "construct" THEN "resolve" ELSE "constructed"
                /\ UNCHANGED exit_message
    /\ UNCHANGED <<inputVars, planVars, poolVars, collectVars, report, exception,
                   enable_chunking, info, video_duration, lookups, whole_requests,
                   resp, whole_result, whole_error, credentials, chunked_calls>>

\* video_duration = get_video_duration(url) if YT_DLP_AVAILABLE else None
MainResolve ==
    /\ pc = "resolve"
    /\ IF info = Unavailable
       THEN /\ video_duration' = <<>>
            /\ pc' = "branch"
       ELSE /\ pc' = "duration_call"
            /\ UNCHANGED video_duration
    /\ UNCHANGED <<inputVars, planVars, poolVars, collectVars, report, exception,
                   enable_chunking, info, lookups, whole_requests, resp,
                   whole_result, exit_message, whole_error, credentials,
                   chunked_calls>>

\* get_video_duration up to ydl.extract_info
DurationCall ==
    /\ pc \in {"duration_call", "duration_direct"}
    /\ IF info = Unavailable
       THEN /\ video_duration' = <<>>
            /\ pc' = IF pc = "duration_call" THEN "branch" ELSE "duration_returned"
            /\ UNCHANGED lookups
       ELSE /\ lookups' = lookups + 1
            /\ pc' = IF pc = "duration_call" THEN "lookup_wait" ELSE "lookup_wait_direct"
            /\ UNCHANGED video_duration
    /\ UNCHANGED <<inputVars, planVars, poolVars, collectVars, report, exception,
                   enable_chunking, info, whole_requests, resp, whole_result,
                   exit_message, whole_error, credentials, chunked_calls>>

\* the value get_video_duration returns for what the lookup gave
DurationValue(outcome) ==
    IF outcome.kind = "duration" /\ outcome.duration # 0
    THEN <<outcome.duration>>
    ELSE <<>>

\* a lookup without a usable duration gives the longest duration instead
DurationReturnDefault ==
    /\ pc \in {"lookup_wait", "lookup_wait_direct"}
    /\ \E outcome \in LookupOutcomes :
          /\ info' = outcome
          /\ video_duration' = IF DurationValue(outcome) = <<>>
                               THEN <<MaxMainDuration>>
                               ELSE DurationValue(outcome)
    /\ pc' = IF pc = "lookup_wait" THEN "branch" ELSE "duration_returned"
    /\ UNCHANGED exception
    /\ UNCHANGED <<inputVars, planVars, poolVars, collectVars, report,
                   enable_chunking, lookups, whole_requests, resp, whole_result,
                   exit_message, whole_error, credentials, chunked_calls>>

\* an exception of the lookup escapes get_video_duration
DurationReturnRaising ==
    /\ pc \in {"lookup_wait", "lookup_wait_direct"}
    /\ \E outcome \in LookupOutcomes :
          /\ info' = outcome
          /\ video_duration' = DurationValue(outcome)
          /\ IF outcome.kind = "raised"
             THEN /\ exception' = "Exception"
                  /\ pc' = "raised"
             ELSE /\ pc' = IF pc = "lookup_wait" THEN "branch" ELSE "duration_returned"
                  /\ UNCHANGED exception
    /\ UNCHANGED <<inputVars, planVars, poolVars, collectVars, report,
                   enable_chunking, lookups, whole_requests, resp, whole_result,
                   exit_message, whole_error, credentials, chunked_calls>>

\* ydl.extract_info returns or raises: get_video_duration returns
DurationReturn ==
    /\ pc \in {"lookup_wait", "lookup_wait_direct"}
    /\ \E outcome \in LookupOutcomes :
          /\ info' = outcome
          /\ video_duration' = DurationValue(outcome)
    /\ pc' = IF pc = "lookup_wait" THEN "branch" ELSE "duration_returned"
    /\ UNCHANGED exception
    /\ UNCHANGED <<inputVars, planVars, poolVars, collectVars, report,
                   enable_chunking, lookups, whole_requests, resp, whole_result,
                   exit_message, whole_error, credentials, chunked_calls>>

\* the chunking decision without the comparison with the segment length
MainBranchNoLengthCheck ==
    /\ pc = "branch"
    /\ IF enable_chunking /\ api_type = "vertex-ai"
       THEN IF video_duration = <<>> \/ video_duration[1] = 0
            THEN /\ enable_chunking' = FALSE
                 /\ pc' = "full"
                 /\ UNCHANGED total_duration
            ELSE IF FALSE
            THEN /\ enable_chunking' = FALSE
                 /\ pc' = "full"
                 /\ UNCHANGED total_duration
            ELSE /\ total_duration' = video_duration[1]
                 /\ pc' = "plan"
                 /\ UNCHANGED enable_chunking
       ELSE /\ pc' = "full"
            /\ UNCHANGED <<enable_chunking, total_duration>>
    /\ UNCHANGED <<api_type, segment_duration, max_workers, failing, hung, planVars,
                   poolVars, collectVars, report, exception, info, video_duration,
                   lookups, whole_requests, resp, whole_result, exit_message,
                   whole_error, credentials, chunked_calls>>

\* the chunking decision, planning one second less than the duration
MainBranchOneShort ==
    /\ pc = "branch"
    /\ IF enable_chunking /\ api_type = "vertex-ai"
       THEN IF video_duration = <<>> \/ video_duration[1] = 0
            THEN /\ enable_chunking' = FALSE
                 /\ pc' = "full"
                 /\ UNCHANGED total_duration
            ELSE IF video_duration[1] <= segment_duration
            THEN /\ enable_chunking' = FALSE
                 /\ pc' = "full"
                 /\ UNCHANGED total_duration
            ELSE /\ total_duration' = video_duration[1] - 1
                 /\ pc' = "plan"
                 /\ UNCHANGED enable_chunking
       ELSE /\ pc' = "full"
            /\ UNCHANGED <<enable_chunking, total_duration>>
    /\ UNCHANGED <<api_type, segment_duration, max_workers, failing, hung, planVars,
                   poolVars, collectVars, report, exception, info, video_duration,
                   lookups, whole_requests, resp, whole_result, exit_message,
                   whole_error, credentials, chunked_calls>>

\* the chunking decision of main, up to the call of create_video_segments
MainBranch ==
    /\ pc = "branch"
    /\ IF enable_chunking /\ api_type = "vertex-ai"
       THEN IF video_duration = <<>> \/ video_duration[1] = 0
            THEN /\ enable_chunking' = FALSE
                 /\ pc' = "full"
                 /\ UNCHANGED total_duration
            ELSE IF video_duration[1] <= segment_duration
            THEN /\ enable_chunking' = FALSE
                 /\ pc' = "full"
                 /\ UNCHANGED total_duration
            ELSE /\ total_duration' = video_duration[1]
                 /\ pc' = "plan"
                 /\ UNCHANGED enable_chunking
       ELSE /\ pc' = "full"
            /\ UNCHANGED <<enable_chunking, total_duration>>
    /\ UNCHANGED <<api_type, segment_duration, max_workers, failing, hung, planVars,
                   poolVars, collectVars, report, exception, info, video_duration,
                   lookups, whole_requests, resp, whole_result, exit_message,
                   whole_error, credentials, chunked_calls>>

\* analyze_full_video up to the remote call
FullVideoCall ==
    /\ pc = "full"
    /\ whole_requests' = whole_requests + 1
    /\ pc' = "full_wait"
    /\ UNCHANGED <<inputVars, planVars, poolVars, collectVars, report, exception,
                   enable_chunking, info, video_duration, lookups, resp,
                   whole_result, exit_message, whole_error, credentials,
                   chunked_calls>>

\* an exception of the remote call escapes analyze_full_video
FullVideoReturnRaising ==
    /\ pc = "full_wait"
    /\ \/ /\ resp' = WholeResponse
          /\ whole_result' = extract_text(WholeResponse)
          /\ pc' = "full_done"
          /\ UNCHANGED <<whole_error, exception>>
       \/ /\ whole_error' = WholeError
          /\ exception' = "Exception"
          /\ pc' = "raised"
          /\ UNCHANGED <<resp, whole_result>>
    /\ UNCHANGED <<inputVars, planVars, poolVars, collectVars, report,
                   enable_chunking, info, video_duration, lookups, whole_requests,
                   exit_message, credentials, chunked_calls>>

\* the remote call returns or raises: analyze_full_video returns, main prints
FullVideoReturn ==
    /\ pc = "full_wait"
    /\ \/ /\ resp' = WholeResponse
          /\ whole_result' = extract_text(WholeResponse)
          /\ UNCHANGED whole_error
       \/ /\ whole_error' = WholeError
          /\ whole_result' = <<WholeErrorPrefix>> \o WholeError
          /\ UNCHANGED resp
    /\ pc' = "full_done"
    /\ UNCHANGED <<inputVars, planVars, poolVars, collectVars, report, exception,
                   enable_chunking, info, video_duration, lookups, whole_requests,
                   exit_message, credentials, chunked_calls>>

\* except Exception as e: sys.exit(f"Error: {str(e)}")
MainCrash ==
    /\ pc = "raised"
    /\ exit_message' = "Error: " \o exception
    /\ pc' = "exited"
    /\ UNCHANGED <<inputVars, planVars, poolVars, collectVars, report, exception,
                   enable_chunking, info, video_duration, lookups, whole_requests,
                   resp, whole_result, whole_error, credentials, chunked_calls>>

MainNext ==
    \/ MainParse
    \/ Construct
    \/ MainResolve
    \/ DurationCall
    \/ DurationReturn
    \/ MainBranch
    \/ PlanStep
    \/ PlanReturn
    \/ ChunkedEnter
    \/ Submit
    \/ WorkerStart
    \/ WorkerFinish
    \/ Record
    \/ ChunkedReturn
    \/ Render
    \/ FullVideoCall
    \/ FullVideoReturn
    \/ MainCrash

MainSpec == MainInit /\ [][MainNext]_vars

----------------------------------------------------------------------------
\* Properties

NumSegments == Len(segments)

\* the plan has been returned by create_video_segments
Planned == pc \in {"planned", "submit", "collect", "returned", "done", "raised"}

\* analyze_chunked has returned its mapping
Returned == pc \in {"returned", "done"}

CapabilityFull == api_type = "vertex-ai"

\* descending list n, n-1, ..., 1
Descending(n) == [k \in 1..n |-> n + 1 - k]

\* the results dict of a run whose segments complete in submission order
RECURSIVE SubmissionOrderDict(_)
SubmissionOrderDict(n) ==
    IF n = 0 THEN <<>>
    ELSE Append(SubmissionOrderDict(n - 1),
                [key |-> segments[n].segment_index,
                 value |-> <<segments[n], SegmentText(n)>>])

\* C1: once create_video_segments(D, L) has returned, the plan has ceil(D / L)
\* segments (none when D = 0), the first starts at 0, each ends where the next
\* starts, the last ends at D, and every second of [0, D) lies in exactly one
\* segment.
C1_PlanCoversDuration ==
    Planned =>
        /\ NumSegments = (IF total_duration = 0 THEN 0
                          ELSE CeilDiv(total_duration, segment_duration))
        /\ NumSegments > 0 =>
             /\ segments[1].start_offset = 0
             /\ segments[NumSegments].end_offset = total_duration
        /\ \A i \in 1..(NumSegments - 1) :
             segments[i].end_offset = segments[i + 1].start_offset
        /\ \A t \in 0..(total_duration - 1) :
             Cardinality({i \in 1..NumSegments :
                 segments[i].start_offset <= t /\ t < segments[i].end_offset}) = 1

\* a returned plan of at least three segments whose last one is cut short
C1_Witness ==
    /\ pc = "planned"
    /\ NumSegments >= 3
    /\ total_duration % segment_duration # 0
    /\ segments[NumSegments].end_offset = total_duration

\* C2: on a capability-full client the mapping analyze_chunked returns is the
\* mapping of the run that completes in submission order, whatever the order
\* in which the segment calls completed and were collected.
C2_CompletionOrderIndependent ==
    (Returned /\ CapabilityFull) =>
        DictMap(results) = DictMap(SubmissionOrderDict(NumSegments))

\* a returned run of at least three segments collected in the reverse of the
\* submission order
C2_Witness ==
    /\ pc = "returned"
    /\ CapabilityFull
    /\ NumSegments >= 3
    /\ DictKeys(results) = Descending(NumSegments)

\* C3: on a capability-full client, whatever subset of the remote calls fails,
\* no exception escapes, every segment call is made and completes, and the
\* returned mapping has exactly one entry per segment: the segment with a
\* failure text carrying the error message if its call failed, with a
\* success text otherwise.
C3_PartialFailureIsolation ==
    CapabilityFull =>
        /\ exception = "none"
        /\ pc # "raised"
        /\ Returned =>
             /\ completed = 1..NumSegments
             /\ Len(results) = NumSegments
             /\ \A i \in 1..NumSegments :
                  /\ HasKey(results, segments[i].segment_index)
                  /\ LET entry == DictGet(results, segments[i].segment_index)
                     IN  /\ entry[1] = segments[i]
                         /\ IsFailure(entry[2]) <=> i \in failing
                         /\ i \in failing =>
                              entry[2] = <<SegmentErrorPrefix>>
                                         \o RemoteError(SegmentRequest(segments[i]))

\* a returned run of at least three segments where some calls failed and
\* some succeeded
C3_Witness ==
    /\ pc = "returned"
    /\ CapabilityFull
    /\ NumSegments >= 3
    /\ failing \cap (1..NumSegments) # {}
    /\ (1..NumSegments) \ failing # {}
    /\ Len(results) = NumSegments

\* the safety half of C4: when analyze_chunked has returned, every submitted
\* unit has completed and its result is in the mapping
JoinedAtReturn ==
    Returned =>
        /\ submitted \subseteq completed
        /\ queue = <<>>
        /\ \A i \in submitted :
             /\ HasKey(results, segments[i].segment_index)
             /\ DictGet(results, segments[i].segment_index) = ret[i]

\* C4: analyze_chunked is a join barrier: whenever it has returned, every
\* submitted unit has completed and is in the returned mapping; and on a
\* capability-full client, where every remote call returns or raises, the
\* call eventually returns.
C4_JoinBarrier ==
    /\ []JoinedAtReturn
    /\ CapabilityFull => <>Returned

\* a returned run in which units were submitted and completed
C4_Witness ==
    /\ pc = "returned"
    /\ Cardinality(submitted) >= 3
    /\ submitted = completed

\* C5: the number of segment calls in flight never exceeds max_workers.
C5_BoundedInFlight == Cardinality(InFlight) <= max_workers

\* the pool is saturated while further units wait in the queue
C5_Witness ==
    /\ max_workers >= 2
    /\ Cardinality(InFlight) = max_workers
    /\ queue # <<>>

\* C6: at every point of planning and afterwards, the segment at list
\* position i has segment_index i, and its start offset is strictly greater
\* than that of the segment before it.
C6_IndexMonotonic ==
    \A i \in 1..NumSegments :
        /\ segments[i].segment_index = i
        /\ i > 1 => segments[i].start_offset > segments[i - 1].start_offset

\* a returned plan of at least three segments
C6_Witness ==
    /\ pc = "planned"
    /\ NumSegments >= 3
    /\ segments[NumSegments].segment_index = NumSegments

\* C7: the report has one block per key of the result mapping, in strictly
\* ascending order of segment index, each block carrying the text stored
\* under its index, whatever the insertion order of the mapping.
C7_ReportAscending ==
    pc = "done" =>
        /\ Len(report) = Len(results)
        /\ {report[k].header.segment_index : k \in 1..Len(report)} = Range(DictKeys(results))
        /\ \A a, b \in 1..Len(report) :
             a < b => report[a].header.segment_index < report[b].header.segment_index
        /\ \A k \in 1..Len(report) :
             report[k].text = DictGet(results, report[k].header.segment_index)[2]

\* a mapping filled in the order 3, 1, 2 is rendered as 1, 2, 3
C7_Witness ==
    /\ pc = "done"
    /\ DictKeys(results) = <<3, 1, 2>>
    /\ [k \in 1..Len(report) |-> report[k].header.segment_index] = <<1, 2, 3>>

\* C8: on a capability-limited client analyze_segment sends no request at
\* any point, and what it returns is the segment given with a failure text.
C8_CapabilityGate ==
    ~CapabilityFull =>
        /\ requests = 0
        /\ pc = "segment_returned" =>
             /\ 1 \in completed
             /\ ret[1][1] = segments[1]
             /\ IsFailure(ret[1][2])

\* analyze_segment has returned on a capability-limited client
C8_Witness ==
    /\ pc = "segment_returned"
    /\ ~CapabilityFull
    /\ 1 \in completed
    /\ IsFailure(ret[1][2])

\* C9 as claimed: on a capability-limited client analyze_chunked, given a
\* plan of N >= 1 segments, returns one failure entry for each segment index
\* 1..N without raising and without a request.
C9_FailurePerSegment ==
    (~CapabilityFull /\ NumSegments >= 1 /\ pc \in {"returned", "done", "raised"}) =>
        /\ exception = "none"
        /\ requests = 0
        /\ \A i \in 1..NumSegments :
             /\ HasKey(results, i)
             /\ IsFailure(DictGet(results, i)[2])

\* C10: every key of the result mapping has been assigned exactly once, so
\* no entry was overwritten; and once a capability-full run has returned,
\* the keys are the segment indices and each key holds what the call for
\* its own segment returned.
C10_WriteOncePerKey ==
    /\ \A k \in DOMAIN writes : writes[k] = 1
    /\ DOMAIN writes = Range(DictKeys(results))
    /\ (Returned /\ CapabilityFull) =>
         /\ DOMAIN writes = {segments[i].segment_index : i \in 1..NumSegments}
         /\ Cardinality(DOMAIN writes) = NumSegments
         /\ \A i \in 1..NumSegments :
              DictGet(results, segments[i].segment_index) = ret[i]

\* a returned run in which at least three keys were written, not in
\* ascending order
C10_Witness ==
    /\ pc = "returned"
    /\ CapabilityFull
    /\ Cardinality(DOMAIN writes) >= 3
    /\ DictKeys(results) # Sorted(DictKeys(results))

\* C18 as claimed: rendering an empty result mapping emits a 'no results'
\* marker.
C18_NoResultsMarker ==
    (pc = "done" /\ results = <<>>) => report = <<"no results">>

\* C18, amended: rendering an empty result mapping does not fail and emits
\* nothing, neither a block nor a marker.
C18_EmptyRendersNothing ==
    (pc = "done" /\ results = <<>>) =>
        /\ report = <<>>
        /\ exception = "none"

\* the display loop has run over the empty mapping of an empty plan
C18_Witness ==
    /\ pc = "done"
    /\ chunked_calls = 1
    /\ segments = <<>>
    /\ results = <<>>

\* C19: on a capability-full client with max_workers >= 1, one request is
\* sent for each segment call begun and none besides, so no failed call is
\* tried again; and a returned run has sent exactly as many requests as the
\* plan has segments, whatever the outcomes.
C19_OneAttemptPerSegment ==
    CapabilityFull =>
        /\ requests = Cardinality(started)
        /\ requests <= NumSegments
        /\ Returned => requests = NumSegments

\* a returned run of at least three segments in which some call failed
C19_Witness ==
    /\ pc = "returned"
    /\ CapabilityFull
    /\ NumSegments >= 3
    /\ failing \cap (1..NumSegments) # {}
    /\ requests = NumSegments

\* C20: in a plan of create_video_segments(D, L) with D > 0 and L > 0 every
\* segment has end > start >= 0, every segment but the last has length L,
\* the last has a length in (0, L]; and the returned plan is empty only
\* when D = 0.
C20_SegmentLengths ==
    /\ \A i \in 1..NumSegments :
         /\ segments[i].start_offset >= 0
         /\ segments[i].end_offset > segments[i].start_offset
         /\ segments[i].end_offset - segments[i].start_offset <= segment_duration
    /\ Planned =>
         /\ \A i \in 1..(NumSegments - 1) :
              segments[i].end_offset - segments[i].start_offset = segment_duration
         /\ NumSegments = 0 <=> total_duration = 0

\* a returned plan whose last segment is shorter than the others
C20_Witness ==
    /\ pc = "planned"
    /\ NumSegments >= 2
    /\ segments[NumSegments].end_offset - segments[NumSegments].start_offset
         < segment_duration

\* the fragments of a response that are not empty once trimmed, trimmed, in
\* candidate and part order
RECURSIVE KeptOfParts(_)
KeptOfParts(parts) ==
    IF parts = <<>> THEN <<>>
    ELSE (IF Strip(Head(parts)) # <<>> THEN <<Strip(Head(parts))>> ELSE <<>>)
         \o KeptOfParts(Tail(parts))

RECURSIVE KeptFragments(_)
KeptFragments(candidates) ==
    IF candidates = <<>> THEN <<>>
    ELSE KeptOfParts(Head(candidates)) \o KeptFragments(Tail(candidates))

\* C17 as claimed: the text extracted from a response is its fragments that
\* are not empty once trimmed, each trimmed, in candidate and part order,
\* separated by exactly one blank line; a fragment that is empty or only
\* whitespace contributes nothing; with no fragment left the text is the
\* 'no content' sentinel.
C17_ExtractedText ==
    pc = "extracted" =>
        whole_result = (IF KeptFragments(resp) = <<>> THEN NoResponse
                        ELSE JoinBlank(KeptFragments(resp)))

\* positions of main on the chunked path, from the call of
\* create_video_segments on
ChunkPath == {"plan", "planned", "submit", "collect", "returned", "done", "raised"}

\* positions of main on the whole-video path
WholePath == {"full", "full_wait", "full_done"}

\* C11: main plans segments and calls analyze_chunked only on a vertex-ai
\* client, with a duration that was resolved and is strictly greater than the
\* segment length; it calls the runner at most once and then makes no
\* whole-video call; a run that ends on the whole-video path made exactly one
\* whole-video call, no call of the runner and no segment request.
C11_RunnerOnlyWhenChunkable ==
    /\ chunked_calls <= 1
    /\ whole_requests <= 1
    /\ (chunked_calls > 0 \/ pc \in ChunkPath) =>
          /\ api_type = "vertex-ai"
          /\ info.kind = "duration"
          /\ video_duration = <<info.duration>>
          /\ info.duration > segment_duration
          /\ whole_requests = 0
    /\ pc \in WholePath => chunked_calls = 0 /\ requests = 0 /\ segments = <<>>
    /\ pc = "full_done" => whole_requests = 1

\* chunking asked for on vertex-ai, duration equal to the segment length:
\* the whole-video call was made instead
C11_Witness ==
    /\ pc = "full_done"
    /\ api_type = "vertex-ai"
    /\ info.kind = "duration"
    /\ info.duration = segment_duration
    /\ info.duration > 0
    /\ lookups = 1
    /\ whole_requests = 1
    /\ chunked_calls = 0

\* the lookup gave no usable duration: library missing, lookup error, no
\* duration field, or duration 0
DurationUnknown ==
    \/ info.kind \in {"unavailable", "raised", "no_duration"}
    \/ info.kind = "duration" /\ info.duration = 0

\* C12: when the lookup gives no duration or the duration 0, main's
\* video_duration is None, no segment is planned, analyze_chunked is never
\* called, no segment request is sent and main is never on the chunked path,
\* whatever the client and the chunking flag.
C12_UnknownDurationFallsBack ==
    DurationUnknown =>
        /\ video_duration = <<>>
        /\ segments = <<>>
        /\ chunked_calls = 0
        /\ requests = 0
        /\ pc \notin ChunkPath

\* vertex-ai, duration 0 looked up: the run ended with one whole-video call
C12_Witness ==
    /\ pc = "full_done"
    /\ api_type = "vertex-ai"
    /\ info.kind = "duration"
    /\ info.duration = 0
    /\ lookups = 1
    /\ whole_requests = 1
    /\ requests = 0

\* the selected backend cannot be configured
ConfigurationError ==
    \/ api_type = "google-ai" /\ "api_key" \notin credentials
    \/ api_type = "vertex-ai" /\ "project_id" \notin credentials
    \/ api_type \notin ApiChoices

ConfigurationMessages == {InvalidChoice, MissingApiKey, MissingProject, InvalidApiType}

\* C13: with a configuration error the run never gets past the constructor:
\* it is before it or has exited with a configuration message, and no
\* generation request, segment request, metadata lookup or runner call was
\* ever made.
C13_ConfigErrorBeforeAnyCall ==
    ConfigurationError =>
        /\ pc \in {"parse", "construct", "construct_direct", "exited"}
        /\ pc = "exited" => exit_message \in ConfigurationMessages
        /\ requests = 0
        /\ whole_requests = 0
        /\ lookups = 0
        /\ chunked_calls = 0

\* main on vertex-ai without a project identifier has exited
C13_Witness ==
    /\ pc = "exited"
    /\ enable_chunking
    /\ api_type = "vertex-ai"
    /\ exit_message = MissingProject
    /\ requests = 0
    /\ whole_requests = 0

\* C14: an error raised by the remote generation call stays inside the client:
\* analyze_full_video returns "Error: " followed by the error message,
\* analyze_segment returns "Error in segment: " followed by the error message,
\* and no exception escapes either; the only exception of a run is the
\* ValueError of the pool constructor, raised before any request.
C14_RemoteErrorsBecomeFailures ==
    /\ whole_error # <<>> =>
          /\ pc = "full_done"
          /\ whole_result = <<WholeErrorPrefix>> \o whole_error
          /\ exception = "none"
    /\ \A i \in completed \cap failing :
          /\ ret[i][2] = <<SegmentErrorPrefix>> \o RemoteError(SegmentRequest(segments[i]))
          /\ IsFailure(ret[i][2])
    /\ exception # "none" =>
          /\ exception = "ValueError"
          /\ requests = 0
          /\ whole_requests = 0

\* the whole-video call raised and main went on to print the result
C14_Witness ==
    /\ pc = "full_done"
    /\ whole_requests = 1
    /\ whole_error = WholeError
    /\ whole_result = <<WholeErrorPrefix, "e">>

\* C15: when main ends the chunked path for a resolved duration D > L > 0
\* with K >= 1 workers and no failing segment call, the plan has ceil(D / L)
\* segments, the results hold a Success entry under each index 1..ceil(D / L)
\* and nothing else, and the report has one block per index in ascending
\* order; for D = 400, L = 180 the plan is (0,180,#1), (180,360,#2),
\* (360,400,#3).
C15_EndToEnd ==
    (/\ pc = "done"
     /\ segment_duration > 0
     /\ max_workers >= 1
     /\ failing \cap (1..NumSegments) = {}) =>
        LET n == CeilDiv(video_duration[1], segment_duration)
        IN  /\ NumSegments = n
            /\ Len(results) = n
            /\ \A k \in 1..n :
                  /\ HasKey(results, k)
                  /\ IsSuccess(DictGet(results, k)[2])
                  /\ DictGet(results, k)[1] = segments[k]
            /\ Len(report) = n
            /\ \A k \in 1..n :
                  /\ report[k].header.segment_index = k
                  /\ report[k] = Block(k)
            /\ (video_duration = <<400>> /\ segment_duration = 180) =>
                  segments = <<VideoSegment(0, 180, 1), VideoSegment(180, 360, 2),
                               VideoSegment(360, 400, 3)>>

\* the scenario D = 400, L = 180, K = 2 with no failing call has ended with
\* three blocks
C15_Witness ==
    /\ pc = "done"
    /\ video_duration = <<400>>
    /\ segment_duration = 180
    /\ max_workers = 2
    /\ failing = {}
    /\ NumSegments = 3
    /\ requests = 3
    /\ Len(report) = 3

\* C16: get_video_duration calls ydl.extract_info at most once, not at all
\* when yt_dlp is missing, and no exception escapes it: its value is None
\* when the library is missing, the lookup raised, the duration field is
\* missing or the duration is 0, and the duration otherwise.
C16_DurationLookupOnceNeverRaises ==
    /\ lookups <= 1
    /\ info = Unavailable => lookups = 0
    /\ pc \in {"lookup_wait", "lookup_wait_direct"} => lookups = 1
    /\ info.kind \in {"unavailable", "raised", "no_duration"} =>
          /\ video_duration = <<>>
          /\ exception = "none"
          /\ pc \notin {"raised"}
          /\ exit_message \in {"none"} \cup ConfigurationMessages
    /\ pc \in {"branch", "duration_returned"} =>
          /\ video_duration = DurationValue(info)
          /\ exception = "none"

\* the lookup raised and get_video_duration returned None
C16_Witness ==
    /\ pc = "duration_returned"
    /\ info.kind = "raised"
    /\ lookups = 1
    /\ video_duration = <<>>
    /\ exception = "none"

\* the units are handed to the pool, wait in its queue and are taken by its
\* workers in ascending segment index
AscendingAdmission ==
    /\ \A i \in submitted : segments[i].segment_index = i
    /\ \A i \in submitted : \A j \in 1..(i - 1) : j \in submitted
    /\ \A k \in 1..(Len(queue) - 1) : queue[k] < queue[k + 1]
    /\ \A i \in started : \A j \in 1..(i - 1) : j \in started

\* a segment waits in the queue while fewer than max_workers calls are in flight
SlotIdle == queue # <<>> /\ PoolHasFreeWorker

PlanOf(D, L) ==
    [k \in 1..CeilDiv(D, L) |-> VideoSegment((k - 1) * L, Min(k * L, D), k)]

\* C22: for D >= 0 and L > 0 create_video_segments returns; every iteration
\* adds one segment and moves start forward by at least 1, never past D; it
\* returns after exactly ceil(D / L) iterations, raises nothing, and the plan
\* it returns is a function of D and L alone.
C22_PlannerTerminates ==
    /\ <>(pc = "planned")
    /\ [][segments' # segments =>
             /\ Len(segments') = Len(segments) + 1
             /\ start' >= start + 1
             /\ start' <= total_duration]_vars
    /\ [](pc = "plan" => Len(segments) = CeilDiv(start, segment_duration))
    /\ [](pc = "planned" =>
             /\ NumSegments = CeilDiv(total_duration, segment_duration)
             /\ segments = PlanOf(total_duration, segment_duration)
             /\ start >= total_duration)
    /\ [](exception = "none")

\* a plan of three segments with a shorter last one has been returned
C22_Witness ==
    /\ pc = "planned"
    /\ segment_duration >= 2
    /\ total_duration % segment_duration # 0
    /\ NumSegments = 3

\* the position whose remote call never returns
Hung == CHOOSE h \in hung : TRUE

\* C23: when the remote call of one segment never returns, that call, once
\* started, stays in flight for ever and analyze_chunked never returns; with
\* max_workers = 1 no segment after it is ever started; with max_workers >= 2
\* every other segment is eventually completed and recorded under its index.
C23_HungCallBlocksReturn ==
    /\ [](hung # {} =>
             /\ ~Returned
             /\ Hung \notin completed
             /\ Hung \in started => Hung \in InFlight
             /\ (max_workers = 1 /\ Hung \in started) => started = 1..Hung)
    /\ <>(\/ hung = {}
          \/ max_workers = 1
          \/ /\ pc = "collect"
             /\ Hung \in InFlight
             /\ yielded = (1..NumSegments) \ hung
             /\ \A i \in yielded :
                   /\ HasKey(results, i)
                   /\ DictGet(results, i) = <<segments[i], SegmentText(i)>>)

\* two workers, the first call hangs, the two other segments are recorded
C23_Witness ==
    /\ pc = "collect"
    /\ max_workers = 2
    /\ hung = {1}
    /\ 1 \in InFlight
    /\ NumSegments = 3
    /\ Len(results) = 2

\* main has ended after the constructor succeeded: normally, or by an
\* exception caught at the top level
EndedPastConstruction ==
    \/ pc \in {"done", "full_done"}
    \/ pc = "exited" /\ exit_message \notin ConfigurationMessages

\* C24 as claimed: a run of main that passes construction never makes both a
\* whole-video request and a segment request, sends segment requests only for
\* a plan of at least two segments, and has when it ends made either exactly
\* one whole-video request and no segment request, or one request for each
\* of N >= 2 planned segments and no whole-video request.
C24_ExactlyOneAnalysis ==
    /\ ~(requests > 0 /\ whole_requests > 0)
    /\ requests > 0 => NumSegments >= 2
    /\ EndedPastConstruction =>
          \/ whole_requests = 1 /\ requests = 0
          \/ whole_requests = 0 /\ NumSegments >= 2 /\ requests = NumSegments

\* C25 as claimed: at every moment of a run of analyze_chunked the recorded
\* indices are among the completed ones, these among the started ones, these
\* among the submitted ones, and the entry under key i holds the plan's
\* segment of index i together with the outcome of that segment's call.
C25_PipelineInclusion ==
    /\ Range(DictKeys(results)) \subseteq completed
    /\ completed \subseteq started
    /\ started \subseteq submitted
    /\ \A i \in Range(DictKeys(results)) :
          /\ segments[i].segment_index = i
          /\ DictGet(results, i)[1] = segments[i]
          /\ DictGet(results, i)[2] = ret[i][2]
          /\ ret[i][1] = segments[i]

\* C26 as claimed: main never passes create_video_segments a segment length
\* <= 0, so the loop of the planner never runs more than D times.
C26_PositiveSegmentLength ==
    pc \in ChunkPath =>
        /\ segment_duration > 0
        /\ Len(segments) <= total_duration

\* C27 as claimed: analyze_chunked called with an empty segment sequence
\* raises nothing, makes no remote call and returns an empty mapping, on a
\* vertex-ai and on a google-ai client.
C27_EmptyPlanReturnsEmpty ==
    (chunked_calls > 0 /\ segments = <<>>) =>
        /\ exception = "none"
        /\ pc # "raised"
        /\ requests = 0
        /\ results = <<>>

====
